---------------------------- MODULE Spec2Model ----------------------------
(***************************************************************************)
(* The link transformer of quartz/plugins/transformers/links.ts            *)
(* (CrawlLinks): one pass of the element visitor over a page's tree.       *)
(*                                                                         *)
(* A JavaScript string is a sequence of one-character strings, so that     *)
(* startsWith, match, URL parsing, percent-decoding and basename are       *)
(* computed on the characters.  Fixed payloads that the code only copies   *)
(* (style, viewBox, path data, class names) are plain strings.             *)
(***************************************************************************)
EXTENDS Naturals, Sequences, FiniteSets, TLC

\* JavaScript's undefined: what reading an absent property gives.
Undefined == "undefined"

\* A JavaScript object is a record; a property it does not have is outside
\* the record's domain.
Has(o, k) == k \in DOMAIN o
Get(o, k) == IF k \in DOMAIN o THEN o[k] ELSE Undefined
Put(o, k, v) == [j \in DOMAIN o \cup {k} |-> IF j = k THEN v ELSE o[j]]

---------------------------------------------------------------------------
(* Strings *)

Take(s, n) == SubSeq(s, 1, n)
Drop(s, n) == SubSeq(s, n + 1, Len(s))

\* String.prototype.startsWith / endsWith
StartsWith(s, p) == Len(p) <= Len(s) /\ Take(s, Len(p)) = p
EndsWith(s, p) == Len(p) <= Len(s) /\ Drop(s, Len(s) - Len(p)) = p

\* String.prototype.indexOf for a one-character needle, 1-based; 0 when absent.
IndexOf(s, c) ==
    IF \E i \in 1..Len(s) : s[i] = c
    THEN CHOOSE i \in 1..Len(s) : s[i] = c /\ \A j \in 1..(i - 1) : s[j] # c
    ELSE 0

\* String.prototype.lastIndexOf, 1-based; 0 when absent.
LastIndexOf(s, c) ==
    IF \E i \in 1..Len(s) : s[i] = c
    THEN CHOOSE i \in 1..Len(s) : s[i] = c /\ \A j \in (i + 1)..Len(s) : s[j] # c
    ELSE 0

\* String.prototype.split on a one-character separator.
RECURSIVE Split(_, _)
Split(s, c) ==
    LET i == IndexOf(s, c)
    IN  IF i = 0 THEN <<s>> ELSE <<Take(s, i - 1)>> \o Split(Drop(s, i), c)

\* Array.prototype.join
RECURSIVE Join(_, _)
Join(parts, sep) ==
    IF Len(parts) = 0 THEN <<>>
    ELSE IF Len(parts) = 1 THEN parts[1]
    ELSE parts[1] \o sep \o Join(Tail(parts), sep)

Lower == {"a","b","c","d","e","f","g","h","i","j","k","l","m",
          "n","o","p","q","r","s","t","u","v","w","x","y","z"}
Upper == {"A","B","C","D","E","F","G","H","I","J","K","L","M",
          "N","O","P","Q","R","S","T","U","V","W","X","Y","Z"}
Digit == {"0","1","2","3","4","5","6","7","8","9"}
Alpha == Lower \cup Upper

\* Printable ASCII, code points 32..126 in order (code 96 by name: the
\* character itself cannot be written in a string of this language).
Ascii ==
    <<" ","!","\"","#","$","%","&","'","(",")","*","+",",","-",".","/",
      "0","1","2","3","4","5","6","7","8","9",":",";","<","=",">","?",
      "@","A","B","C","D","E","F","G","H","I","J","K","L","M","N","O",
      "P","Q","R","S","T","U","V","W","X","Y","Z","[","\\","]","^","_",
      "GRAVE","a","b","c","d","e","f","g","h","i","j","k","l","m","n","o",
      "p","q","r","s","t","u","v","w","x","y","z","{","|","}","~">>

IsHex(c) == c \in Digit \cup {"a","b","c","d","e","f","A","B","C","D","E","F"}

HexVal(c) ==
    CASE c \in Digit -> IndexOf(Ascii, c) - 17
      [] c \in {"a","b","c","d","e","f"} -> IndexOf(Ascii, c) - 56
      [] c \in {"A","B","C","D","E","F"} -> IndexOf(Ascii, c) - 24

\* String.prototype.toLowerCase on one ASCII character.
ToLower(c) == IF c \in Upper THEN Ascii[IndexOf(Ascii, c) + 32] ELSE c

LowerCase(s) == [i \in 1..Len(s) |-> ToLower(s[i])]

HexDigits == <<"0","1","2","3","4","5","6","7","8","9","A","B","C","D","E","F">>

---------------------------------------------------------------------------
(* Platform functions the transformer calls: URL.canParse, new URL(rel,    *)
(* base).pathname, decodeURIComponent, path.basename.                      *)

SchemeChars == Alpha \cup Digit \cup {"+", "-", "."}

\* Position of the ":" ending a URL scheme (ASCII alpha, then alphanumerics,
\* "+", "-", "."), or 0 when the string has no scheme.
SchemeEnd(s) ==
    LET i == IndexOf(s, ":")
    IN  IF i >= 2 /\ s[1] \in Alpha /\ \A j \in 2..(i - 1) : s[j] \in SchemeChars
        THEN i ELSE 0

SpecialSchemes ==
    { <<"h","t","t","p">>, <<"h","t","t","p","s">>, <<"f","t","p">>,
      <<"w","s">>, <<"w","s","s">> }

FileScheme == <<"f","i","l","e">>

ForbiddenHostChars ==
    {" ", "#", "/", ":", "<", ">", "?", "@", "[", "\\", "]", "^", "|"}

\* The authority of what follows the scheme's slashes: up to the first of
\* "/", "\", "?", "#".
RECURSIVE AuthorityOf(_)
AuthorityOf(s) ==
    IF Len(s) = 0 \/ s[1] \in {"/", "\\", "?", "#"} THEN <<>>
    ELSE <<s[1]>> \o AuthorityOf(Tail(s))

RECURSIVE SkipSlashes(_)
SkipSlashes(s) ==
    IF Len(s) > 0 /\ s[1] \in {"/", "\\"} THEN SkipSlashes(Tail(s)) ELSE s

\* host[:port] with the userinfo (up to the last "@") removed.
HostPort(authority) == Drop(authority, LastIndexOf(authority, "@"))

HostOf(hp) ==
    LET i == LastIndexOf(hp, ":") IN IF i = 0 THEN hp ELSE Take(hp, i - 1)

PortOk(hp) ==
    LET i == LastIndexOf(hp, ":")
    IN  i = 0 \/ \A j \in (i + 1)..Len(hp) : hp[j] \in Digit

\* URL.canParse(s) with no base: the string has a scheme and, for a special
\* scheme, a non-empty valid host (the WHATWG parser; strings of printable
\* ASCII, no IPv6 literal and no numeric last label).
URLcanParse(s) ==
    LET i == SchemeEnd(s)
        scheme == LowerCase(Take(s, i - 1))
        rest == Drop(s, i)
    IN  /\ i > 0
        /\ IF scheme \in SpecialSchemes
           THEN LET hp == HostPort(AuthorityOf(SkipSlashes(rest)))
                    host == HostOf(hp)
                IN  /\ host # <<>>
                    /\ \A j \in 1..Len(host) : host[j] \notin ForbiddenHostChars \cup {"%"}
                    /\ PortOk(hp)
           ELSE IF scheme # FileScheme /\ StartsWith(rest, <<"/", "/">>)
           THEN LET hp == HostPort(AuthorityOf(Drop(rest, 2)))
                    host == HostOf(hp)
                IN  /\ \A j \in 1..Len(host) : host[j] \notin ForbiddenHostChars
                    /\ PortOk(hp)
           ELSE TRUE

\* The path percent-encode set, within printable ASCII.
PathEncodeSet == {" ", "\"", "#", "<", ">", "?", "GRAVE", "{", "}"}

PercentEncode(c) ==
    LET code == IndexOf(Ascii, c) + 31
    IN  <<"%", HexDigits[(code \div 16) + 1], HexDigits[(code % 16) + 1]>>

RECURSIVE EncodeSegment(_)
EncodeSegment(seg) ==
    IF Len(seg) = 0 THEN <<>>
    ELSE (IF seg[1] \in PathEncodeSet THEN PercentEncode(seg[1]) ELSE <<seg[1]>>)
         \o EncodeSegment(Tail(seg))

\* The URL parser's path state over the segments of a path: "." is dropped,
\* ".." pops, either one in last position leaves an empty last segment.
RECURSIVE PathSegments(_, _)
PathSegments(segs, acc) ==
    IF Len(segs) = 0 THEN acc
    ELSE LET seg == segs[1]
             last == Len(segs) = 1
             popped == IF Len(acc) = 0 THEN acc ELSE Take(acc, Len(acc) - 1)
         IN  IF seg = <<".", ".">>
             THEN PathSegments(Tail(segs), IF last THEN Append(popped, <<>>) ELSE popped)
             ELSE IF seg = <<".">>
             THEN PathSegments(Tail(segs), IF last THEN Append(acc, <<>>) ELSE acc)
             ELSE PathSegments(Tail(segs), Append(acc, EncodeSegment(seg)))

UpTo(s, c) == LET i == IndexOf(s, c) IN IF i = 0 THEN s ELSE Take(s, i - 1)

\* new URL(rel, "https://base.com/" + basePath).pathname, for a rel with no
\* scheme and no leading "//" (a relative reference: every value the
\* resolver returns starts with ".").
URLpathname(rel, basePath) ==
    LET baseSegs == PathSegments(Split(basePath, "/"), <<>>)
        relPath == UpTo(UpTo(rel, "#"), "?")
        segs == IF relPath = <<>> THEN baseSegs
                ELSE IF relPath[1] = "/"
                THEN PathSegments(Split(Tail(relPath), "/"), <<>>)
                ELSE PathSegments(Split(relPath, "/"),
                                  Take(baseSegs, Len(baseSegs) - 1))
    IN  <<"/">> \o Join(segs, <<"/">>)

\* A percent-escape at position i of s: "%" and two hex digits.
EscapeAt(s, i) == i + 2 <= Len(s) /\ s[i] = "%" /\ IsHex(s[i + 1]) /\ IsHex(s[i + 2])

ByteAt(s, i) == 16 * HexVal(s[i + 1]) + HexVal(s[i + 2])

\* The number of UTF-8 continuation bytes a lead byte asks for; 4 marks a
\* byte that cannot start a sequence.
Continuations(b) ==
    CASE b < 128 -> 0
      [] b >= 194 /\ b <= 223 -> 1
      [] b >= 224 /\ b <= 239 -> 2
      [] b >= 240 /\ b <= 244 -> 3
      [] OTHER -> 4

\* The character a decoded sequence stands for: the ASCII character itself,
\* one token for a control character, one for a character beyond ASCII.
DecodedChar(b) ==
    IF b >= 32 /\ b <= 126 THEN Ascii[b - 31]
    ELSE IF b < 128 THEN "CTRL" ELSE "NONASCII"

\* decodeURIComponent(s): [ok |-> TRUE, value |-> the decoded string], or
\* [ok |-> FALSE] when it throws URIError (a "%" not followed by two hex
\* digits, or escapes that are not a UTF-8 sequence).
RECURSIVE decodeURIComponent(_)
decodeURIComponent(s) ==
    IF Len(s) = 0 THEN [ok |-> TRUE, value |-> <<>>]
    ELSE IF s[1] # "%"
    THEN LET r == decodeURIComponent(Tail(s))
         IN  IF r.ok THEN [ok |-> TRUE, value |-> <<s[1]>> \o r.value] ELSE r
    ELSE IF ~EscapeAt(s, 1) THEN [ok |-> FALSE, value |-> <<>>]
    ELSE LET b == ByteAt(s, 1)
             n == Continuations(b)
             contOk == /\ n < 4
                       /\ \A k \in 1..n :
                             /\ EscapeAt(s, 1 + 3 * k)
                             /\ ByteAt(s, 1 + 3 * k) >= 128
                             /\ ByteAt(s, 1 + 3 * k) <= 191
         IN  IF ~contOk THEN [ok |-> FALSE, value |-> <<>>]
             ELSE LET r == decodeURIComponent(Drop(s, 3 * (n + 1)))
                  IN  IF r.ok
                      THEN [ok |-> TRUE, value |-> <<DecodedChar(b)>> \o r.value]
                      ELSE r

RECURSIVE StripTrailingSlashes(_)
StripTrailingSlashes(s) ==
    IF Len(s) > 0 /\ s[Len(s)] = "/" THEN StripTrailingSlashes(Take(s, Len(s) - 1)) ELSE s

\* path.basename(p) (posix): the part after the last "/", trailing "/" ignored.
basename(p) ==
    LET q == StripTrailingSlashes(p) IN Drop(q, LastIndexOf(q, "/"))

---------------------------------------------------------------------------
(* The path utilities the transformer imports from ../../util/path: the    *)
(* slug normaliser, the anchor splitter and the link resolver.             *)

\* stripSlashes(s, onlyStripPrefix): one leading "/" removed and, unless
\* onlyStripPrefix, one trailing "/".
stripSlashes(s, onlyStripPrefix) ==
    LET t == IF StartsWith(s, <<"/">>) THEN Tail(s) ELSE s
    IN  IF ~onlyStripPrefix /\ EndsWith(t, <<"/">>) THEN Take(t, Len(t) - 1) ELSE t

IndexName == <<"i","n","d","e","x">>

\* s is the suffix, or ends in "/" and the suffix.
endsWithSegment(s, suffix) == s = suffix \/ EndsWith(s, <<"/">> \o suffix)

trimSuffix(s, suffix) ==
    IF endsWithSegment(s, suffix) THEN Take(s, Len(s) - Len(suffix)) ELSE s

\* simplifySlug(fp): the simple slug of a full slug, a trailing "index"
\* segment trimmed and the leading "/" stripped; "/" for the root.
simplifySlug(fp) ==
    LET res == stripSlashes(trimSuffix(fp, IndexName), TRUE)
    IN  IF Len(res) = 0 THEN <<"/">> ELSE res

\* The anchor slugger on ASCII: lower case, spaces to "-", punctuation dropped.
RECURSIVE slugAnchor(_)
slugAnchor(a) ==
    IF Len(a) = 0 THEN <<>>
    ELSE LET c == ToLower(a[1])
         IN  (IF c = " " THEN <<"-">>
              ELSE IF c \in Lower \cup Digit \cup {"-", "_"} THEN <<c>>
              ELSE <<>>) \o slugAnchor(Tail(a))

PdfExt == <<".","p","d","f">>

\* splitAnchor(link): <<the part before the first "#", the anchor>>; the
\* anchor is "" or "#" and the slugged text up to a second "#".
splitAnchor(link) ==
    LET i == IndexOf(link, "#")
        fp == IF i = 0 THEN link ELSE Take(link, i - 1)
        anchor == UpTo(Drop(link, i), "#")
    IN  IF i = 0 THEN <<fp, <<>> >>
        ELSE IF EndsWith(fp, PdfExt) THEN <<fp, <<"#">> \o anchor>>
        ELSE <<fp, <<"#">> \o slugAnchor(anchor)>>

NonEmpty(seg) == Len(seg) > 0

isRelativeSegment(seg) == seg \in { <<>>, <<".">>, <<".", ".">> }

NotRelativeSegment(seg) == ~isRelativeSegment(seg)

\* joinSegments(...args): the non-empty arguments joined by "/".
joinSegments(args) == Join(SelectSeq(args, NonEmpty), <<"/">>)

MdExt == <<".","m","d">>
HtmlExt == <<".","h","t","m","l">>

\* The file path of a link as a slug: the .md or .html extension dropped.
stripExtension(fp) ==
    IF EndsWith(fp, MdExt) THEN Take(fp, Len(fp) - Len(MdExt))
    ELSE IF EndsWith(fp, HtmlExt) THEN Take(fp, Len(fp) - Len(HtmlExt))
    ELSE fp

\* pathToRoot(slug): one ".." per folder of the slug, "." at the root.
pathToRoot(slug) ==
    LET folders == SelectSeq(Split(slug, "/"), NonEmpty)
        ups == [i \in 1..(Len(folders) - 1) |-> <<".", ".">>]
    IN  IF Len(ups) = 0 THEN <<".">> ELSE Join(ups, <<"/">>)

\* _addRelativeToStart(s): "." for the empty path, "./" put in front of a
\* path that does not start with ".".
addRelativeToStart(s) ==
    IF Len(s) = 0 THEN <<".">>
    ELSE IF s[1] = "." THEN s
    ELSE <<".", "/">> \o s

\* The relative URL made of the segments of a link's path: the relative
\* segments first, then the file path as a slug.
relativeURL(segments) ==
    addRelativeToStart(
        joinSegments(<<Join(SelectSeq(segments, isRelativeSegment), <<"/">>),
                       stripExtension(Join(SelectSeq(segments, NotRelativeSegment),
                                           <<"/">>))>>))

\* The relative URL of the two parts splitAnchor gives: the trailing "/" of
\* a folder path and the anchor are kept.
joinAnchor(sp) ==
    relativeURL(SelectSeq(Split(sp[1], "/"), NonEmpty))
      \o (IF EndsWith(sp[1], <<"/">>) THEN <<"/">> ELSE <<>>)
      \o sp[2]

\* transformInternalLink(link)
transformInternalLink(link) == joinAnchor(splitAnchor(link))

\* The href of a link whose relative URL is targetSlug: that URL under the
\* "relative" strategy, the path from the root of the site otherwise.
applyStrategy(src, targetSlug, strategy) ==
    IF strategy = "relative" THEN targetSlug
    ELSE joinSegments(<<pathToRoot(src), stripSlashes(Tail(targetSlug), FALSE)>>)
           \o (IF EndsWith(UpTo(targetSlug, "#"), <<"/">>) THEN <<"/">> ELSE <<>>)

\* transformLink(src, target, opts): the destination of an internal link as
\* the href to write.
transformLink(src, target, strategy) ==
    applyStrategy(src, transformInternalLink(target), strategy)

---------------------------------------------------------------------------
(* Substitution rules: type Sub = [RegExp, Appendable].                    *)

\* A JavaScript value handed to a constructor, with what typeof says of it.
StringValue(v) == [typeof |-> "string", value |-> v]
ObjectValue(v) == [typeof |-> "object", value |-> v]

\* Image(src): an object is returned as it is, a string is wrapped and tagged.
Image(src) ==
    IF src.typeof = "object" THEN src.value
    ELSE [src |-> src.value, type |-> "image"]

\* Emoji(text): an object is returned as it is, a string is wrapped and tagged.
Emoji(text) ==
    IF text.typeof = "object" THEN text.value
    ELSE [text |-> text.value, type |-> "emoji"]

\* Path(path): the object is returned as it is (the cast adds no property).
Path(path) == path.value

\* The regular expressions of the rules: /^pre(.*)$/ with the prefix and
\* the rest each inside or outside a capture group.
RegExp(pre, capPre, capRest) == [pre |-> pre, capPre |-> capPre, capRest |-> capRest]

\* href.match(regex): null, or the match array (the whole match, then the
\* captured groups).
match(href, regex) ==
    IF ~StartsWith(href, regex.pre) THEN [null |-> TRUE, parts |-> <<>>]
    ELSE [null |-> FALSE,
          parts |-> <<href>>
                    \o (IF regex.capPre THEN <<regex.pre>> ELSE <<>>)
                    \o (IF regex.capRest THEN <<Drop(href, Len(regex.pre))>> ELSE <<>>)]

---------------------------------------------------------------------------
(* Nodes of the tree (hast).                                               *)

Text(value) == [type |-> "text", value |-> value]

Element(tagName, properties, children) ==
    [type |-> "element", tagName |-> tagName, properties |-> properties,
     children |-> children]

IconStyle == "max-width:1em;max-height:1em"
DefaultIconStyle == "max-width:0.8em;max-height:0.8em"
DefaultViewBox == "0 0 512 512"
DefaultIconPath == "M320 0H288V64h32 82.7L201.4 265.4 178.7 288 224 333.3l22.6-22.6L448 109.3V192v32h64V192 32 0H480 320zM32 32H0V64 480v32H32 456h32V480 352 320H424v32 96H64V96h96 32V32H160 32z"

SvgIcon(style, viewBox, d) ==
    Element("svg",
            [ariaHidden |-> "true", class |-> "external-icon",
             style |-> style, viewBox |-> viewBox],
            <<Element("path", [d |-> d], <<>>)>>)

ImgIcon(src) == Element("img", [src |-> src, style |-> IconStyle], <<>>)

DefaultIcon == SvgIcon(DefaultIconStyle, DefaultViewBox, DefaultIconPath)

\* refIcon = null: no icon chosen.
Null == [type |-> "null"]

---------------------------------------------------------------------------
(* The visitor's callback on an "a" element with a string href.            *)

\* switch (sub.type): the icon built from the rule's descriptor; refIcon
\* stays as it was when no case applies.
RuleIcon(sub, refIcon) ==
    LET type == Get(sub, "type")
    IN  CASE type = "image" -> ImgIcon(sub.src)
          [] type = "emoji" -> Text(sub.text)
          [] type = "path" -> SvgIcon(IconStyle, sub.viewbox, sub.code)
          [] OTHER -> refIcon

\* The callback of substitutions.every applied to one rule that matched:
\* the new values of matched, dest and refIcon.
Substitute(parts, sub, st) ==
    [matched |-> TRUE,
     dest |-> Join(Tail(parts), <<>>),
     refIcon |-> RuleIcon(sub, st.refIcon)]

\* opts.substitutions?.every(...): the rules are tried in order; the
\* callback returns true (go on) when the rule does not match and false
\* (stop) after the first one that does.
RECURSIVE every(_, _, _)
every(substitutions, href, st) ==
    IF Len(substitutions) = 0 THEN st
    ELSE LET m == match(href, substitutions[1][1])
         IN  IF m.null THEN every(Tail(substitutions), href, st)
             ELSE Substitute(m.parts, substitutions[1][2], st)

\* Classification by the URL test alone.
ClassificationByUrl(isExternal, matched) ==
    IF isExternal THEN "external" ELSE "internal"

\* classes.push(isExternal || matched ? "external" : "internal")
Classification(isExternal, matched) ==
    IF isExternal \/ matched THEN "external" ELSE "internal"

\* (isExternal && opts.externalLinkIcon) || matched
NeedsIcon(isExternal, matched, opts) ==
    (isExternal /\ opts.externalLinkIcon) \/ matched

\* The icon pushed: refIcon when a rule's descriptor made one, the default
\* external-link icon otherwise.
IconPushed(refIcon) == IF refIcon # Null THEN refIcon ELSE DefaultIcon

\* An alias test on the first child, whatever follows it.
IsAliasFirstChild(children, dest) ==
    /\ Len(children) >= 1
    /\ children[1].type = "text"
    /\ children[1].value # dest

\* The link has alias text: one child, a text, other than dest.
IsAlias(children, dest) ==
    /\ Len(children) = 1
    /\ children[1].type = "text"
    /\ children[1].value # dest

\* isExternal && opts.openLinksInNewTab
OpensInNewTab(isExternal, opts) == isExternal /\ opts.openLinksInNewTab

\* const isInternal = !(URL.canParse(dest) || dest.startsWith("#"))
isInternal(dest) == ~(URLcanParse(dest) \/ StartsWith(dest, <<"#">>))

\* The canonical destination of a resolved href: the pathname of the href
\* against the page's URL, "index" added to a path ending in "/".
CanonicalDest(dest, curSlug) ==
    LET canonicalDest == URLpathname(dest, stripSlashes(curSlug, TRUE))
        destCanonical == splitAnchor(canonicalDest)[1]
    IN  IF EndsWith(destCanonical, <<"/">>) THEN destCanonical \o IndexName
        ELSE destCanonical

\* const full = decodeURIComponent(stripSlashes(destCanonical, true)):
\* [ok, value], ok false when decodeURIComponent throws.
FullSlug(dest, curSlug) ==
    decodeURIComponent(stripSlashes(CanonicalDest(dest, curSlug), TRUE))

\* A data-slug that is the slug added to the set.
DataSlugSimple(full, simple) == simple

\* node.properties["data-slug"] = full
DataSlug(full, simple) == full

\* outgoing.add(simple): a Set, in insertion order.
SetAdd(set, v) ==
    IF \E i \in 1..Len(set) : set[i] = v THEN set ELSE Append(set, v)

\* The condition of the pretty-links rewrite.
Shortens(opts, internal, children) ==
    /\ opts.prettyLinks
    /\ internal
    /\ Len(children) = 1
    /\ children[1].type = "text"
    /\ ~StartsWith(children[1].value, <<"#">>)

\* node.children[0].value = path.basename(node.children[0].value)
Shortened(children) == <<Text(basename(children[1].value))>>

\* The href written back on an internal link.
ResolvedHref(slug, dest, opts) ==
    transformLink(slug, dest, opts.markdownLinkResolution)

NoMatch(href) == [matched |-> FALSE, dest |-> href, refIcon |-> Null]

\* let dest = href, refIcon = null, matched = false, then the rules.
Matching(href, opts) ==
    IF Has(opts, "substitutions")
    THEN every(opts.substitutions, href, NoMatch(href))
    ELSE NoMatch(href)

\* className ?? []
ClassNames(properties) ==
    IF Has(properties, "className") THEN properties.className ELSE <<>>

\* The children once the icon, if any, is pushed.
WithIcon(children, st, isExternal, opts) ==
    IF NeedsIcon(isExternal, st.matched, opts)
    THEN Append(children, IconPushed(st.refIcon))
    ELSE children

\* The classes written back: those the element had, the classification,
\* "alias" when the children (the icon among them) are an alias text.
WithClasses(classes, children, st, isExternal) ==
    IF IsAlias(children, st.dest)
    THEN Append(Append(classes, Classification(isExternal, st.matched)), "alias")
    ELSE Append(classes, Classification(isExternal, st.matched))

WithTarget(properties, isExternal, opts) ==
    IF OpensInNewTab(isExternal, opts) THEN Put(properties, "target", "_blank")
    ELSE properties

\* The element once href, className and target are written and the icon
\* is pushed (the block up to the isInternal test).
Annotated(node, children, st, isExternal, opts) ==
    [node EXCEPT
       !.properties =
          WithTarget(
             Put(Put(node.properties, "href", st.dest), "className",
                 WithClasses(ClassNames(node.properties), children, st, isExternal)),
             isExternal, opts),
       !.children = children]

\* outgoing.add(simple); node.properties["data-slug"] = full
Recorded(node, outgoing, full, simple) ==
    [node |-> [node EXCEPT !.properties =
                  Put(node.properties, "data-slug", DataSlug(full, simple))],
     outgoing |-> SetAdd(outgoing, simple),
     threw |-> FALSE]

\* The block of an internal link once its href is resolved: full is what
\* decodeURIComponent gave, or its exception.
Slugged(node, outgoing, full) ==
    IF ~full.ok THEN [node |-> node, outgoing |-> outgoing, threw |-> TRUE]
    ELSE Recorded(node, outgoing, full.value, simplifySlug(full.value))

\* dest = node.properties.href = transformLink(...), then the slugs.
Canonical(node, slug, outgoing, resolved) ==
    Slugged([node EXCEPT !.properties = Put(node.properties, "href", resolved)],
            outgoing, FullSlug(resolved, simplifySlug(slug)))

\* if (isInternal) { ... }
Resolved(node, slug, opts, outgoing, dest, internal) ==
    IF internal
    THEN Canonical(node, slug, outgoing, ResolvedHref(slug, dest, opts))
    ELSE [node |-> node, outgoing |-> outgoing, threw |-> FALSE]

\* The pretty-links rewrite of the link's text.
Prettified(r, opts, internal) ==
    IF ~r.threw /\ Shortens(opts, internal, r.node.children)
    THEN [r EXCEPT !.node.children = Shortened(r.node.children)]
    ELSE r

\* The callback from the isInternal test on.
AfterAnnotation(node, slug, opts, outgoing, dest, internal) ==
    Prettified(Resolved(node, slug, opts, outgoing, dest, internal), opts, internal)

\* The callback once the rules have been tried and dest tested for a URL.
AfterMatching(node, slug, opts, outgoing, st, isExternal) ==
    AfterAnnotation(
        Annotated(node, WithIcon(node.children, st, isExternal, opts),
                  st, isExternal, opts),
        slug, opts, outgoing, st.dest, isInternal(st.dest))

AfterRules(node, slug, opts, outgoing, st) ==
    AfterMatching(node, slug, opts, outgoing, st, URLcanParse(st.dest))

\* The callback's first block, on an "a" element whose href is a string:
\* the node and the outgoing set as the block leaves them, threw when an
\* exception left the block (the writes made before it stay).
VisitLink(node, slug, opts, outgoing) ==
    AfterRules(node, slug, opts, outgoing, Matching(node.properties.href, opts))

ResourceTags == {"img", "video", "audio", "iframe"}

\* if (opts.lazyLoad) node.properties.loading = "lazy"
LazyLoaded(properties, opts) ==
    IF opts.lazyLoad THEN Put(properties, "loading", "lazy") ELSE properties

\* A src left as the page wrote it.
SrcKept(properties, slug, opts) == properties

\* if (!URL.canParse(src)) src = transformLink(...)
SrcResolved(properties, slug, opts) ==
    IF ~URLcanParse(properties.src)
    THEN Put(properties, "src", ResolvedHref(slug, properties.src, opts))
    ELSE properties

\* The callback's second block, on a resource element whose src is a string.
VisitResource(node, slug, opts) ==
    [node EXCEPT !.properties = SrcResolved(LazyLoaded(node.properties, opts), slug, opts)]

IsLink(node) == node.tagName = "a" /\ Has(node.properties, "href")

IsResource(node) == node.tagName \in ResourceTags /\ Has(node.properties, "src")

Unvisited(node, outgoing) == [node |-> node, outgoing |-> outgoing, threw |-> FALSE]

\* The second block, after what the first block left.
ThenResource(r, slug, opts) ==
    IF r.threw \/ ~IsResource(r.node) THEN r
    ELSE [r EXCEPT !.node = VisitResource(r.node, slug, opts)]

\* The callback visit() runs on one element.
VisitElement(node, slug, opts, outgoing) ==
    ThenResource(IF IsLink(node) THEN VisitLink(node, slug, opts, outgoing)
                 ELSE Unvisited(node, outgoing),
                 slug, opts)

---------------------------------------------------------------------------
(* Options.                                                                *)

defaultOptions ==
    [markdownLinkResolution |-> "absolute", prettyLinks |-> TRUE,
     openLinksInNewTab |-> FALSE, lazyLoad |-> FALSE, externalLinkIcon |-> TRUE]

\* const opts = { ...defaultOptions, ...userOpts }
MergeOptions(userOpts) ==
    [k \in DOMAIN defaultOptions \cup DOMAIN userOpts |->
        IF k \in DOMAIN userOpts THEN userOpts[k] ELSE defaultOptions[k]]

---------------------------------------------------------------------------
(* Inputs: destinations, link texts, rules, options, pages.                *)

HttpsUrl == <<"h","t","t","p","s",":","/","/","e",".","c","o","m","/","x">>
MailtoUrl == <<"m","a","i","l","t","o",":","a","@","b",".","c","o","m">>
AnchorRef == <<"#","s","e","c">>
RelativeMd == <<".","/","n","o","t","e","s","/","f","o","o",".","m","d">>
PlainPath == <<"n","o","t","e","s","/","f","o","o">>
FolderPath == <<"d","o","c","s","/">>
BadPercent == <<"1","0","0","%">>

Hrefs == {HttpsUrl, MailtoUrl, AnchorRef, RelativeMd, PlainPath, FolderPath, BadPercent}

Label == <<"l","a","b","e","l">>

Bold == Element("b", <<>>, <<>>)

\* The contents a link is given: nothing, its own destination as text,
\* another text, a text and an element.
ChildrenOf(href) ==
    { <<>>, <<Text(href)>>, <<Text(Label)>>, <<Text(href), Bold>> }

LinkNodes ==
    UNION {{Element("a", [href |-> h], c) : c \in ChildrenOf(h)} : h \in Hrefs}

\* Links that come with classes and a target of their own.
StyledLinkNodes ==
    {Element("a", [href |-> h, className |-> <<"wikilink">>, target |-> "_self"],
             <<Text(h)>>) : h \in Hrefs}

ImagePath == <<"i",".","p","n","g">>

ResourceNodes ==
    { Element("img", [src |-> HttpsUrl], <<>>),
      Element("img", [src |-> ImagePath], <<>>),
      Element("iframe", [src |-> PlainPath, loading |-> "eager"], <<>>),
      Element("video", [src |-> BadPercent, loading |-> "lazy"], <<Text(Label)>>) }

OtherNodes ==
    { Element("p", <<>>, <<Text(Label)>>),
      Element("a", [name |-> "top"], <<>>),
      Element("img", [alt |-> "x"], <<>>) }

Nodes == LinkNodes \cup StyledLinkNodes \cup ResourceNodes \cup OtherNodes

MailtoPrefix == <<"m","a","i","l","t","o",":">>
HttpsPrefix == <<"h","t","t","p","s",":">>
\* The text of an emoji icon: any string will do, a "/" in it included.
EmojiText == <<"e","/","m">>

VectorCode == "M0 0h24v24H0z"
VectorViewbox == "0 0 24 24"

\* Rules as a configuration writes them, with the constructors or as a
\* literal: /^mailto:(.*)$/, /^(.*)$/, /^(https:)(.*)$/, /^mailto:.*$/.
Rules ==
    { <<RegExp(MailtoPrefix, FALSE, TRUE), Emoji(StringValue(EmojiText))>>,
      <<RegExp(<<>>, FALSE, TRUE), Image(StringValue("/static/icon.png"))>>,
      <<RegExp(HttpsPrefix, TRUE, TRUE),
        [code |-> VectorCode, viewbox |-> VectorViewbox, type |-> "path"]>>,
      <<RegExp(MailtoPrefix, FALSE, FALSE),
        Path(ObjectValue([code |-> VectorCode, viewbox |-> VectorViewbox]))>>,
      <<RegExp(MailtoPrefix, FALSE, TRUE), Emoji(ObjectValue([text |-> EmojiText]))>> }

EmojiRule == <<RegExp(MailtoPrefix, FALSE, TRUE), Emoji(StringValue(EmojiText))>>
ImageRule == <<RegExp(<<>>, FALSE, TRUE), Image(StringValue("/static/icon.png"))>>

MaxRules == 2

\* Every list of up to MaxRules rules.
SubstitutionLists == UNION {[1..n -> Rules] : n \in 0..MaxRules}

\* One list for each rule alone, and two rules that both match a mailto:
\* link in either order.
BasicLists ==
    {<<>>, <<EmojiRule, ImageRule>>, <<ImageRule, EmojiRule>>}
      \cup {<<r>> : r \in Rules}

\* The options a configuration may set, each to the value that is not its
\* default.
Overrides ==
    [markdownLinkResolution |-> "relative", prettyLinks |-> FALSE,
     openLinksInNewTab |-> TRUE, lazyLoad |-> TRUE, externalLinkIcon |-> FALSE]

\* userOpts: every choice of overrides, without substitutions or with one
\* of the basic lists; and every list of rules with no other option set.
UserOptions ==
    { [k \in K \cup S |-> IF k \in K THEN Overrides[k] ELSE l] :
        K \in SUBSET DOMAIN Overrides, S \in {{}, {"substitutions"}},
        l \in BasicLists }
      \cup { [substitutions |-> l] : l \in SubstitutionLists }

\* userOpts of a build of several pages.
SiteUserOptions ==
    { <<>>,
      [prettyLinks |-> FALSE, markdownLinkResolution |-> "relative"],
      [substitutions |-> <<EmojiRule>>] }

ProjectsBar == <<"p","r","o","j","e","c","t","s","/","b","a","r">>

Slugs == {ProjectsBar, IndexName}

MaxNodes == 2
MaxPages == 2

\* Pages of one element at most: the callback sees one element at a time.
Trees == {<<>>} \cup {<<n>> : n \in Nodes}

\* The links of the pages of a site: each with its destination as text.
SiteNodes ==
    {Element("a", [href |-> h], <<Text(h)>>) :
        h \in {HttpsUrl, AnchorRef, RelativeMd, PlainPath, FolderPath, BadPercent}}

\* Pages of up to MaxNodes elements.
SiteTrees == UNION {[1..n -> SiteNodes] : n \in 0..MaxNodes}

---------------------------------------------------------------------------
(* The transformer: CrawlLinks(userOpts) and its pass over each page.      *)

VARIABLES
    opts,       \* the merged options of the plugin
    file,       \* file.data of the page in hand: slug, and links once written
    input,      \* the tree as the page was parsed
    tree,       \* the tree, rewritten in place: its elements in visit order
    pos,        \* the number of elements visited
    outgoing,   \* the Set of outgoing slugs, in insertion order
    pc,         \* "idle", "visiting", or "threw" once an exception left the pass
    pagesDone   \* the number of pages processed

vars == <<opts, file, input, tree, pos, outgoing, pc, pagesDone>>

\* const outgoing: Set<SimpleSlug> = new Set()
\* A set kept from one page to the next.
StaleSet == outgoing

NewSet == <<>>

Init ==
    /\ opts \in {MergeOptions(u) : u \in UserOptions}
    /\ file = <<>>
    /\ input = <<>>
    /\ tree = <<>>
    /\ pos = 0
    /\ outgoing = <<>>
    /\ pc = "idle"
    /\ pagesDone = 0

\* The processor is called on a page: (tree, file) => { ... }
Process(slug, t) ==
    /\ pc = "idle"
    /\ pagesDone < MaxPages
    /\ file' = [slug |-> slug]
    /\ input' = t
    /\ tree' = t
    /\ pos' = 0
    /\ outgoing' = NewSet
    /\ pc' = "visiting"
    /\ UNCHANGED <<opts, pagesDone>>

StartPage == \E slug \in Slugs, t \in Trees : Process(slug, t)

\* What the callback did to the element: the visit goes on, or stops at
\* the exception.
Visited(r) ==
    /\ tree' = [tree EXCEPT ![pos + 1] = r.node]
    /\ outgoing' = r.outgoing
    /\ pos' = IF r.threw THEN pos ELSE pos + 1
    /\ pc' = IF r.threw THEN "threw" ELSE "visiting"

\* visit(tree, "element", ...) reaches the next element.
Visit ==
    /\ pc = "visiting"
    /\ pos < Len(tree)
    /\ Visited(VisitElement(tree[pos + 1], file.slug, opts, outgoing))
    /\ UNCHANGED <<opts, file, input, pagesDone>>

\* file.data.links = [...outgoing]
FinishPage ==
    /\ pc = "visiting"
    /\ pos = Len(tree)
    /\ file' = Put(file, "links", outgoing)
    /\ pc' = "idle"
    /\ pagesDone' = pagesDone + 1
    /\ UNCHANGED <<opts, input, tree, pos, outgoing>>

Next == StartPage \/ Visit \/ FinishPage

\* One element a page, every configuration.
Spec == Init /\ [][Next]_vars

InitSite ==
    /\ opts \in {MergeOptions(u) : u \in SiteUserOptions}
    /\ file = <<>>
    /\ input = <<>>
    /\ tree = <<>>
    /\ pos = 0
    /\ outgoing = <<>>
    /\ pc = "idle"
    /\ pagesDone = 0

StartSitePage == \E slug \in Slugs, t \in SiteTrees : Process(slug, t)

NextSite == StartSitePage \/ Visit \/ FinishPage

\* Pages of several links, processed one after the other.
SpecSite == InitSite /\ [][NextSite]_vars

---------------------------------------------------------------------------
(* The vocabulary of the properties: the links a pass has processed, each  *)
(* as it was parsed (input) and as the pass left it (tree).                *)

\* The links whose callback ran to its end.
LinksDone == {i \in 1..pos : IsLink(input[i])}

\* The links the callback ran on, the one it threw on among them.
LinksVisited ==
    {i \in 1..Len(input) :
        IsLink(input[i]) /\ (i <= pos \/ (pc = "threw" /\ i = pos + 1))}

RawHref(i) == input[i].properties.href

\* The configured rules, none when the option is not given.
RuleList == IF Has(opts, "substitutions") THEN opts.substitutions ELSE <<>>

Matches(href, k) == ~match(href, RuleList[k][1]).null

\* The first rule, in declared order, whose pattern matches; 0 when none does.
FirstMatching(href) ==
    IF \E k \in 1..Len(RuleList) : Matches(href, k)
    THEN CHOOSE k \in 1..Len(RuleList) :
            Matches(href, k) /\ \A j \in 1..(k - 1) : ~Matches(href, j)
    ELSE 0

\* The captured groups of rule k on href, concatenated.
Captured(href, k) == Join(Tail(match(href, RuleList[k][1]).parts), <<>>)

\* The destination after the rules: the groups of the first rule that
\* matches, the raw href when none does.
Destination(href) ==
    IF FirstMatching(href) = 0 THEN href ELSE Captured(href, FirstMatching(href))

RuleMatched(href) == FirstMatching(href) # 0

\* What a descriptor describes, by the payload it carries.
Variant(sub) ==
    IF Has(sub, "src") THEN "image" ELSE IF Has(sub, "text") THEN "emoji" ELSE "path"

\* The shape of a node: "text", or the tag of an element.
Shape(n) == IF n.type = "text" THEN "text" ELSE n.tagName

ShapeFor(variant) ==
    CASE variant = "image" -> "img" [] variant = "emoji" -> "text" [] OTHER -> "svg"

\* The children the pass added to link i: those after the ones it came with.
AddedChildren(i) ==
    SubSeq(tree[i].children, Len(input[i].children) + 1, Len(tree[i].children))

\* The classes the pass added to link i.
AddedClasses(i) ==
    SubSeq(tree[i].properties.className,
           Len(ClassNames(input[i].properties)) + 1,
           Len(tree[i].properties.className))

InSeq(x, seq) == \E j \in 1..Len(seq) : seq[j] = x

\* The options with the rules after the k-th removed.
OnlyFirstRules(k) == [opts EXCEPT !.substitutions = Take(RuleList, k)]

---------------------------------------------------------------------------
(* C1: the first rule whose pattern matches the raw href decides the link: *)
(* the destination is the concatenation of that rule's captured groups     *)
(* (written as it is on the href, or resolved from it when it is           *)
(* internal), the icon pushed has the shape of that rule's descriptor      *)
(* (image: img, emoji: text, path: svg), and the rules after it change     *)
(* nothing.                                                                *)
FirstRuleDecides ==
    \A i \in LinksDone :
        LET href == RawHref(i)
            k == FirstMatching(href)
        IN  k > 0 =>
              /\ tree[i].properties.href =
                    IF isInternal(Captured(href, k))
                    THEN ResolvedHref(file.slug, Captured(href, k), opts)
                    ELSE Captured(href, k)
              /\ Len(AddedChildren(i)) = 1
              /\ Shape(AddedChildren(i)[1]) = ShapeFor(Variant(RuleList[k][2]))
              /\ tree[i] = VisitElement(input[i], file.slug, OnlyFirstRules(k), <<>>).node

\* C1 without the shape of the icon: the first matching rule gives the
\* destination and later rules change nothing.
FirstRuleGivesDestination ==
    \A i \in LinksDone :
        LET href == RawHref(i)
            k == FirstMatching(href)
        IN  k > 0 =>
              /\ tree[i].properties.href =
                    IF isInternal(Captured(href, k))
                    THEN ResolvedHref(file.slug, Captured(href, k), opts)
                    ELSE Captured(href, k)
              /\ tree[i] = VisitElement(input[i], file.slug, OnlyFirstRules(k), <<>>).node

---------------------------------------------------------------------------
\* One child, a text.
SingleText(children) == Len(children) = 1 /\ children[1].type = "text"

HasAlias(i) == InSeq("alias", AddedClasses(i))

(* C2 as stated: at the end of the pass a link whose content is a single   *)
(* text other than the href left on the element carries "alias", and a     *)
(* link whose single text is that href does not.                           *)
AliasAgainstFinalHref ==
    \A i \in LinksDone :
        SingleText(tree[i].children) =>
            (HasAlias(i) <=> tree[i].children[1].value # tree[i].properties.href)

\* The options with pretty links off.
PrettyOff == [opts EXCEPT !.prettyLinks = FALSE]

\* The pass on the element link i was, with pretty links off.
Plain(i) == VisitElement(input[i], file.slug, PrettyOff, <<>>)

\* The children of link i when the alias test ran: those it came with and
\* the icon, if one was pushed, no text shortened yet.
ChildrenAtAliasTest(i) == Plain(i).node.children

(* C2, amended: the pass adds "alias" exactly when, once the icon is       *)
(* pushed, the link's content is a single text other than the destination  *)
(* the rules left (the raw href, or the groups of the first matching       *)
(* rule): the text before pretty-link shortening, the destination before   *)
(* resolution rewrites the href.                                           *)
AliasAgainstDestination ==
    \A i \in LinksVisited :
        HasAlias(i) <=>
            /\ SingleText(ChildrenAtAliasTest(i))
            /\ ChildrenAtAliasTest(i)[1].value # Destination(RawHref(i))

\* An internal link whose text was its destination: no alias, though the
\* text, shortened, is no longer the resolved href.
AliasWitness ==
    \E i \in LinksDone :
        /\ SingleText(tree[i].children)
        /\ input[i].children = <<Text(RawHref(i))>>
        /\ ~HasAlias(i)
        /\ tree[i].children[1].value # tree[i].properties.href
        /\ Has(tree[i].properties, "data-slug")

---------------------------------------------------------------------------
\* The classes of link i say it is external.
ClassifiedExternal(i) == InSeq("external", AddedClasses(i))

(* C3: a link classified "external" (its destination parses as a URL or a  *)
(* rule matched) and a link whose destination starts with "#" add nothing  *)
(* to the outgoing set and get no data-slug.                               *)
OnlyInternalRecorded ==
    \A i \in LinksDone :
        (ClassifiedExternal(i) \/ StartsWith(Destination(RawHref(i)), <<"#">>)) =>
            /\ ~Has(tree[i].properties, "data-slug")
            /\ VisitElement(input[i], file.slug, opts, <<>>).outgoing = <<>>

---------------------------------------------------------------------------
(* C4: the pass never fails: no exception leaves the visit of an element,  *)
(* whatever the href.                                                      *)
NeverThrows == pc # "threw"

---------------------------------------------------------------------------
(* C5: the pass appends to a link's classes exactly one classification,    *)
(* "external" when the destination after the rules parses as an absolute   *)
(* URL or a rule matched and "internal" otherwise ("#" anchors among       *)
(* them), followed at most by "alias"; the classes it had stay in front.   *)
OneClassification ==
    \A i \in LinksVisited :
        LET external == URLcanParse(Destination(RawHref(i))) \/ RuleMatched(RawHref(i))
            class == IF external THEN "external" ELSE "internal"
        IN  /\ AddedClasses(i) \in { <<class>>, <<class, "alias">> }
            /\ SubSeq(tree[i].properties.className, 1,
                      Len(ClassNames(input[i].properties)))
                 = ClassNames(input[i].properties)

\* A link classified external by its rule alone, one by its URL alone, and
\* an anchor classified internal have all been processed in this build.
ClassificationWitness ==
    \E i \in LinksDone :
        /\ RuleMatched(RawHref(i))
        /\ ~URLcanParse(Destination(RawHref(i)))
        /\ ClassifiedExternal(i)
        /\ Len(ClassNames(input[i].properties)) > 0

---------------------------------------------------------------------------
\* The icon a descriptor stands for.
IconOf(sub) ==
    CASE Variant(sub) = "image" -> ImgIcon(sub.src)
      [] Variant(sub) = "emoji" -> Text(sub.text)
      [] OTHER -> SvgIcon(IconStyle, sub.viewbox, sub.code)

\* The children link i came with are where they were, texts still texts.
ChildrenKept(i) ==
    /\ Len(tree[i].children) >= Len(input[i].children)
    /\ \A j \in 1..Len(input[i].children) :
          tree[i].children[j].type = input[i].children[j].type

(* C6: a pass pushes at most one icon on a link, after its children, and   *)
(* pushes one exactly when the destination parses as a URL with the        *)
(* default-icon option on, or a rule matched; the icon of the rule that    *)
(* matched, the default external-link svg otherwise.                       *)
OneIconTheRulesOwn ==
    \A i \in LinksVisited :
        LET href == RawHref(i)
            due == (URLcanParse(Destination(href)) /\ opts.externalLinkIcon)
                     \/ RuleMatched(href)
        IN  /\ ChildrenKept(i)
            /\ Len(AddedChildren(i)) = IF due THEN 1 ELSE 0
            /\ due =>
                 AddedChildren(i)[1] =
                    IF RuleMatched(href) THEN IconOf(RuleList[FirstMatching(href)][2])
                    ELSE DefaultIcon

---------------------------------------------------------------------------
(* C7: with the new-tab option on, a link classified "external" gets       *)
(* target "_blank"; with the option off, or on an internal link, the       *)
(* target is as it was.                                                    *)
ExternalOpensInNewTab ==
    \A i \in LinksVisited :
        IF opts.openLinksInNewTab /\ ClassifiedExternal(i)
        THEN Get(tree[i].properties, "target") = "_blank"
        ELSE Get(tree[i].properties, "target") = Get(input[i].properties, "target")

---------------------------------------------------------------------------
\* The links the pass gave a data-slug.
LinksSlugged == {i \in LinksDone : Has(tree[i].properties, "data-slug")}

(* C8 as stated: the data-slug of an internal link is a normalized slug    *)
(* (simplifySlug leaves it as it is), the one the link added to the        *)
(* outgoing set.                                                           *)
DataSlugIsSimple ==
    \A i \in LinksSlugged :
        /\ simplifySlug(tree[i].properties["data-slug"]) = tree[i].properties["data-slug"]
        /\ InSeq(tree[i].properties["data-slug"], outgoing)

(* C8, amended: the data-slug of an internal link is its full slug (the    *)
(* decoded canonical path of the resolved href, "index" added to a path    *)
(* ending in "/", the leading "/" stripped), and the outgoing set holds    *)
(* simplifySlug of it: not the data-slug itself when the full slug ends    *)
(* in an index segment.                                                    *)
DataSlugIsFull ==
    \A i \in LinksDone :
        /\ Has(tree[i].properties, "data-slug") <=> isInternal(Destination(RawHref(i)))
        /\ Has(tree[i].properties, "data-slug") =>
              /\ tree[i].properties["data-slug"] =
                    FullSlug(tree[i].properties.href, simplifySlug(file.slug)).value
              /\ InSeq(simplifySlug(tree[i].properties["data-slug"]), outgoing)

\* A link to a folder: its data-slug ends in "index", the set holds the
\* slug without it.
DataSlugWitness ==
    \E i \in LinksSlugged :
        /\ EndsWith(tree[i].properties["data-slug"], <<"/">> \o IndexName)
        /\ ~InSeq(tree[i].properties["data-slug"], outgoing)
        /\ InSeq(simplifySlug(tree[i].properties["data-slug"]), outgoing)

---------------------------------------------------------------------------
(* C9: pretty links change the text of a link and nothing else.  The text  *)
(* becomes its last path segment when the option is on, the link is        *)
(* internal (not classified "external"), and the content is one text that  *)
(* does not start with "#"; in every other case, and with the option off,  *)
(* the children are those of the pass without the option.  The properties  *)
(* (href, data-slug, classes among them) and the outgoing set are those    *)
(* of the pass without the option.                                         *)
PrettyLinksDisplayOnly ==
    \A i \in LinksDone :
        LET shortens == /\ opts.prettyLinks
                        /\ ~ClassifiedExternal(i)
                        /\ SingleText(Plain(i).node.children)
                        /\ ~StartsWith(Plain(i).node.children[1].value, <<"#">>)
        IN  /\ tree[i].properties = Plain(i).node.properties
            /\ VisitElement(input[i], file.slug, opts, <<>>).outgoing = Plain(i).outgoing
            /\ IF shortens
               THEN tree[i].children =
                       <<Text(basename(Plain(i).node.children[1].value))>>
               ELSE tree[i].children = Plain(i).node.children

\* The same with "internal" read as the test of the resolution block (the
\* destination is no URL and does not start with "#"), a matched rule or
\* not.
PrettyLinksOnlyText ==
    \A i \in LinksDone :
        LET shortens == /\ opts.prettyLinks
                        /\ isInternal(Destination(RawHref(i)))
                        /\ SingleText(Plain(i).node.children)
                        /\ ~StartsWith(Plain(i).node.children[1].value, <<"#">>)
        IN  /\ tree[i].properties = Plain(i).node.properties
            /\ VisitElement(input[i], file.slug, opts, <<>>).outgoing = Plain(i).outgoing
            /\ IF shortens
               THEN tree[i].children =
                       <<Text(basename(Plain(i).node.children[1].value))>>
               ELSE tree[i].children = Plain(i).node.children
            /\ ~opts.prettyLinks =>
                 SubSeq(tree[i].children, 1, Len(input[i].children)) = input[i].children

---------------------------------------------------------------------------
\* The elements of a sequence.
Range(seq) == {seq[j] : j \in 1..Len(seq)}

NoDuplicates(seq) == \A j, k \in 1..Len(seq) : seq[j] = seq[k] => j = k

\* The slugs the links of the page in hand reach, each link taken alone.
SlugsReached ==
    UNION {Range(VisitElement(input[i], file.slug, opts, <<>>).outgoing) :
             i \in 1..Len(input)}

(* C10: when a page's pass is over, the links of the page hold each slug   *)
(* its own internal links reach, once: no slug twice, none missing, none   *)
(* from a page processed before.                                           *)
LinksOfThePage ==
    (pc = "idle" /\ pagesDone > 0) =>
        /\ Has(file, "links")
        /\ NoDuplicates(file.links)
        /\ Range(file.links) = SlugsReached

\* A second page whose two links, of different hrefs, reach the same slug,
\* recorded once.
LinksWitness ==
    /\ pc = "idle"
    /\ pagesDone = 2
    /\ Len(tree) = 2
    /\ \A i \in 1..2 : Has(tree[i].properties, "data-slug")
    /\ input[1].properties.href # input[2].properties.href
    /\ Len(file.links) = 1

---------------------------------------------------------------------------
\* The resource elements the callback ran on.
ResourcesDone == {i \in 1..pos : IsResource(input[i])}

\* The properties of an element but for its src and its loading hint.
OtherProperties(properties) ==
    [k \in DOMAIN properties \ {"src", "loading"} |-> properties[k]]

(* C11: an img, video, audio or iframe with a string src keeps a src that  *)
(* parses as a URL and has any other src replaced by what the resolver of  *)
(* the links gives for it from the page's slug under the configured        *)
(* strategy; the pass sets loading to "lazy" when lazy loading is on and   *)
(* leaves the hint as it was, there or not, when it is off; the element    *)
(* adds nothing to the outgoing set and its children, classes and other    *)
(* properties (no data-slug) are as they were.                             *)
ResourcesResolved ==
    \A i \in ResourcesDone :
        LET src == input[i].properties.src
        IN  /\ tree[i].properties.src =
                  IF URLcanParse(src) THEN src
                  ELSE transformLink(file.slug, src, opts.markdownLinkResolution)
            /\ IF opts.lazyLoad
               THEN Get(tree[i].properties, "loading") = "lazy"
               ELSE Get(tree[i].properties, "loading") = Get(input[i].properties, "loading")
            /\ OtherProperties(tree[i].properties) = OtherProperties(input[i].properties)
            /\ ~Has(tree[i].properties, "className")
            /\ ~Has(tree[i].properties, "data-slug")
            /\ tree[i].children = input[i].children
            /\ tree[i].tagName = input[i].tagName
            /\ VisitElement(input[i], file.slug, opts, <<>>).outgoing = <<>>
            /\ outgoing = <<>>

\* A frame with a relative src and a hint of its own, under lazy loading:
\* the src is resolved, the hint replaced.
ResourceWitness ==
    \E i \in ResourcesDone :
        /\ opts.lazyLoad
        /\ ~URLcanParse(input[i].properties.src)
        /\ tree[i].properties.src # input[i].properties.src
        /\ Get(input[i].properties, "loading") = "eager"
        /\ tree[i].properties.loading = "lazy"

===========================================================================
